---- MODULE Spec2Model ----
(***************************************************************************)
(* map2poster: the Streamlit dashboard (src/main.py) and the engine it     *)
(* calls (map2poster.core, map2poster.font_management).                    *)
(*                                                                         *)
(* One script run of main() is one step.  The state kept between runs is   *)
(* the st.cache_data store of get_cached_coordinates, the cache directory  *)
(* CACHE_DIR with its three namespaces, and the temporary directory.       *)
(* Text inputs are sequences of one-character strings so that float(),     *)
(* strip and case folding are computed, not assumed.                       *)
(***************************************************************************)
EXTENDS Integers, Sequences, FiniteSets, TLC

None == "None"

\* ------------------------------------------------------------------ bounds
\* temporary files that may exist at once (the temp directory is unbounded)
MaxTmp == 2
\* chunks a cache writer needs to write one complete entry
MaxChunks == 2

\* ------------------------------------------------------------ text helpers
RECURSIVE lstrip(_)
lstrip(s) == IF s # <<>> /\ Head(s) = " " THEN lstrip(Tail(s)) ELSE s

RECURSIVE rstrip(_)
rstrip(s) ==
    IF s # <<>> /\ s[Len(s)] = " " THEN rstrip(SubSeq(s, 1, Len(s) - 1)) ELSE s

strip(s) == rstrip(lstrip(s))

lowerChar(c) ==
    CASE c = "N" -> "n" [] c = "Y" -> "y" [] c = "L" -> "l" [] c = "A" -> "a"
      [] c = "U" -> "u" [] c = "S" -> "s" [] OTHER -> c

lower(s) == [i \in 1..Len(s) |-> lowerChar(s[i])]

Digits == {"0", "1", "2", "3", "4", "5", "6", "7", "8", "9"}

digitVal(c) ==
    CASE c = "0" -> 0 [] c = "1" -> 1 [] c = "2" -> 2 [] c = "3" -> 3
      [] c = "4" -> 4 [] c = "5" -> 5 [] c = "6" -> 6 [] c = "7" -> 7
      [] c = "8" -> 8 [] c = "9" -> 9

RECURSIVE digitsVal(_)
digitsVal(s) ==
    IF s = <<>> THEN 0
    ELSE 10 * digitsVal(SubSeq(s, 1, Len(s) - 1)) + digitVal(s[Len(s)])

\* Python float(text) on whole-number texts: surrounding whitespace is
\* dropped, one sign is allowed, at least one digit is required; anything
\* else raises ValueError (ok = FALSE).
negative(t) == t # <<>> /\ Head(t) = "-"

unsigned(t) == IF t # <<>> /\ Head(t) \in {"-", "+"} THEN Tail(t) ELSE t

float_digits(neg, d) ==
    IF d # <<>> /\ \A i \in 1..Len(d) : d[i] \in Digits
    THEN [ok |-> TRUE, val |-> IF neg THEN 0 - digitsVal(d) ELSE digitsVal(d)]
    ELSE [ok |-> FALSE, val |-> 0]

float_stripped(t) == float_digits(negative(t), unsigned(t))

float(text) == float_stripped(strip(text))

\* Python truthiness of a str: non-empty
truthy(text) == text # <<>>

\* ------------------------------------------------------------------ inputs
\* (city, country) texts typed into the sidebar
Queries ==
    { << <<"N", "y">>, <<"U", "S">> >>,
      << <<"n", "y", " ">>, <<" ", "u", "s">> >>,
      << <<"L", "a">>, <<"U", "S">> >> }

\* texts typed into the Lat and Lon inputs
LatTexts == { <<>>, <<"4", "0", " ">>, <<" ">> }
LonTexts == { <<>>, <<"-", "7", "4">> }

\* Google Font input ("" = none)
FontTexts == { "", "Lato" }

\* results the external geocoder can give for a query
GeoPoints == { <<40, -74>>, <<41, -74>> }
\* Python None where a point is expected
NoPoint == <<>>
GeoAnswers ==
    { [ok |-> TRUE, point |-> p] : p \in GeoPoints } \cup { [ok |-> FALSE, point |-> NoPoint] }

\* ------------------------------------------------------- finite functions
Empty == [x \in {} |-> None]

Put(f, k, v) == [x \in DOMAIN f \cup {k} |-> IF x = k THEN v ELSE f[x]]

\* ------------------------------------------------------------- the engine
\* d is the state the engine works on:
\*   memo  st.cache_data store of get_cached_coordinates, keyed by its arguments
\*   root  CACHE_DIR exists
\*   geo   geocode namespace: normalized key -> point
\*   font  font namespace: cached families
\*   net   street-network namespace: cached centre points (one radius)
\*   tmp   temporary output files that exist
\* e is what the outside world answers during one run:
\*   geo (the geocoder's answer), fontOk, netOk, exportOk

\* cache key of the Location Resolver: trim, then case-fold
Normalize(q) == << lower(strip(q[1])), lower(strip(q[2])) >>

\* Location Resolver on the normalized key k: disk cache hit, else one
\* external geocoding call whose result is stored
get_coordinates_keyed(d, k, e) ==
    IF d.root /\ k \in DOMAIN d.geo
    THEN [ok |-> TRUE, point |-> d.geo[k], calls |-> 0, d |-> d]
    ELSE IF ~e.geo.ok
    THEN [ok |-> FALSE, point |-> NoPoint, calls |-> 1, d |-> d]
    ELSE [ok |-> TRUE, point |-> e.geo.point, calls |-> 1,
          d |-> [d EXCEPT !.root = TRUE, !.geo = Put(@, k, e.geo.point)]]

get_coordinates(d, q, e) == get_coordinates_keyed(d, Normalize(q), e)

\* the wrapper with neither cache: every call goes to the external geocoder
get_cached_coordinates_uncached(d, q, e) ==
    IF ~e.geo.ok
    THEN [ok |-> FALSE, point |-> NoPoint, calls |-> 1, d |-> d]
    ELSE [ok |-> TRUE, point |-> e.geo.point, calls |-> 1, d |-> d]

\* @st.cache_data keeps the value r the body returned for the arguments q;
\* a body that raised leaves nothing
cache_data_store(r, q) ==
    IF r.ok THEN [r EXCEPT !.d.memo = Put(@, q, r.point)] ELSE r

\* @st.cache_data: a hit on the exact arguments returns the stored value
\* without running the body
get_cached_coordinates(d, q, e) ==
    IF q \in DOMAIN d.memo
    THEN [ok |-> TRUE, point |-> d.memo[q], calls |-> 0, d |-> d]
    ELSE cache_data_store(get_coordinates(d, q, e), q)

\* Font Manager with a fetch failure raised instead of degraded
load_fonts_raising(d, family, e) ==
    IF d.root /\ family \in d.font
    THEN [raised |-> FALSE, is_fallback |-> FALSE, fetched |-> FALSE,
          fetchFailed |-> FALSE, d |-> d]
    ELSE IF e.fontOk
    THEN [raised |-> FALSE, is_fallback |-> FALSE, fetched |-> TRUE,
          fetchFailed |-> FALSE,
          d |-> [d EXCEPT !.root = TRUE, !.font = @ \cup {family}]]
    ELSE [raised |-> TRUE, is_fallback |-> FALSE, fetched |-> TRUE,
          fetchFailed |-> TRUE, d |-> d]

\* Font Manager: cache hit, else fetch and persist; a failed fetch degrades
\* to the theme default font with is_fallback set
load_fonts(d, family, e) ==
    IF d.root /\ family \in d.font
    THEN [raised |-> FALSE, is_fallback |-> FALSE, fetched |-> FALSE,
          fetchFailed |-> FALSE, d |-> d]
    ELSE IF e.fontOk
    THEN [raised |-> FALSE, is_fallback |-> FALSE, fetched |-> TRUE,
          fetchFailed |-> FALSE,
          d |-> [d EXCEPT !.root = TRUE, !.font = @ \cup {family}]]
    ELSE [raised |-> FALSE, is_fallback |-> TRUE, fetched |-> TRUE,
          fetchFailed |-> TRUE, d |-> d]

\* Poster Compositor: street network (cache hit or external fetch), then
\* layout and export into output_file; it never removes output_file
CreatePoster(d, point, e) ==
    IF d.root /\ point \in d.net
    THEN [raised |-> IF e.exportOk THEN "none" ELSE "export", fetched |-> FALSE,
          d |-> d]
    ELSE IF ~e.netOk
    THEN [raised |-> "network", fetched |-> TRUE, d |-> d]
    ELSE [raised |-> IF e.exportOk THEN "none" ELSE "export", fetched |-> TRUE,
          d |-> [d EXCEPT !.root = TRUE, !.net = @ \cup {point}]]

\* ---------------------------------------------------------- the dashboard
\* line 111: both texts are truthy
UseOverride_either(lat, lon) == truthy(lat) \/ truthy(lon)

UseOverride(lat, lon) == truthy(lat) /\ truthy(lon)

\* line 112: the point the two texts spell, or ValueError
override_point(flat, flon, d) ==
    IF flat.ok /\ flon.ok
    THEN [raised |-> "none", geocoded |-> FALSE, calls |-> 0,
          point |-> << flat.val, flon.val >>, d |-> d]
    ELSE [raised |-> "float", geocoded |-> FALSE, calls |-> 0, point |-> NoPoint,
          d |-> d]

\* line 114: the point get_cached_coordinates returned, or its exception
geocoded_point(r) ==
    [raised |-> IF r.ok THEN "none" ELSE "coords", geocoded |-> TRUE,
     calls |-> r.calls, point |-> r.point, d |-> r.d]

\* lines 111-114 with the geocoder consulted before the override is looked at
geocode_then_override(r, in) ==
    IF UseOverride(in.lat, in.lon)
    THEN [override_point(float(in.lat), float(in.lon), r.d)
             EXCEPT !.geocoded = TRUE, !.calls = r.calls]
    ELSE geocoded_point(r)

coordinates_geocodeFirst(d, in, e) ==
    geocode_then_override(get_cached_coordinates(d, in.q, e), in)

\* lines 111-114: the point of the render
coordinates(d, in, e) ==
    IF UseOverride(in.lat, in.lon)
    THEN override_point(float(in.lat), float(in.lon), d)
    ELSE geocoded_point(get_cached_coordinates(d, in.q, e))

\* tempfile.NamedTemporaryFile(delete=False): a name not in use
NamedTemporaryFile(d) == CHOOSE n \in 1..MaxTmp : n \notin d.tmp

\* what generate() has to report before its first step
NoGen(d) ==
    [path |-> 0, raised |-> "none", geocoded |-> FALSE, calls |-> 0,
     point |-> NoPoint, tmp |-> 0, fontFetched |-> FALSE, fontFailed |-> FALSE,
     is_fallback |-> FALSE, posterCalled |-> FALSE, netFetched |-> FALSE,
     posterPoint |-> NoPoint, d |-> d]

\* line 124: load_fonts(font_family) if font_family else None
custom_fonts(d, family, e) ==
    IF family # ""
    THEN load_fonts(d, family, e)
    ELSE [raised |-> FALSE, is_fallback |-> FALSE, fetched |-> FALSE,
          fetchFailed |-> FALSE, d |-> d]

\* generate() with the point c, the file output_path and the fonts f in hand
before_poster(c, output_path, f) ==
    [NoGen(f.d) EXCEPT !.geocoded = c.geocoded, !.calls = c.calls,
                       !.point = c.point, !.tmp = output_path,
                       !.fontFetched = f.fetched, !.fontFailed = f.fetchFailed,
                       !.is_fallback = f.is_fallback]

\* lines 126-145: CreatePoster returned (return output_path) or raised
\* (except: return None)
after_poster(g, p) ==
    [g EXCEPT !.posterCalled = TRUE, !.posterPoint = g.point,
              !.netFetched = p.fetched, !.raised = p.raised, !.d = p.d,
              !.path = IF p.raised = "none" THEN g.tmp ELSE 0]

\* lines 124-145
after_fonts(c, output_path, f, e) ==
    IF f.raised
    THEN [before_poster(c, output_path, f) EXCEPT !.raised = "font"]
    ELSE after_poster(before_poster(c, output_path, f), CreatePoster(f.d, c.point, e))

\* lines 119-145: the temporary file is created and stays
after_temp_file(c, output_path, in, e) ==
    after_fonts(c, output_path,
                custom_fonts([c.d EXCEPT !.tmp = @ \cup {output_path}], in.font, e), e)

\* lines 116-145; the theme is one of get_available_themes() and loads
after_coordinates(c, in, e) ==
    IF c.raised # "none"
    THEN [NoGen(c.d) EXCEPT !.raised = c.raised, !.geocoded = c.geocoded,
                            !.calls = c.calls]
    ELSE after_temp_file(c, NamedTemporaryFile(c.d), in, e)

\* generate(): path = 0 is the None it returns from the except branch
generate(d, in, e) == after_coordinates(coordinates(d, in, e), in, e)

\* lines 89-98, the Clear Cache button: rmtree and mkdir when CACHE_DIR
\* exists (then st.rerun()), a notice otherwise
ClearCache_noMkdir(d) ==
    IF d.root
    THEN [cleared |-> TRUE, rerun |-> TRUE,
          d |-> [d EXCEPT !.root = FALSE, !.geo = Empty, !.font = {}, !.net = {}]]
    ELSE [cleared |-> FALSE, rerun |-> FALSE, d |-> d]

ClearCache(d) ==
    IF d.root
    THEN [cleared |-> TRUE, rerun |-> TRUE,
          d |-> [d EXCEPT !.root = TRUE, !.geo = Empty, !.font = {}, !.net = {}]]
    ELSE [cleared |-> FALSE, rerun |-> FALSE, d |-> d]

\* line 104
should_generate(in, btn) == btn = "render" \/ in.live

\* lines 152-173: display, download button, os.remove
display(d, in, g) ==
    IF g.path # 0
    THEN [shown |-> IF in.fmt = "png" THEN "image" ELSE "info", offered |-> TRUE,
          d |-> [d EXCEPT !.tmp = @ \ {g.path}]]
    ELSE [shown |-> "none", offered |-> FALSE, d |-> d]

\* lines 150-173: what the run that generated g and displayed v did
rendered(g, v) ==
    [cleared |-> FALSE, rerun |-> FALSE, generated |-> TRUE, g |-> g,
     shown |-> v.shown, offered |-> v.offered, d |-> v.d]

generated_and_shown(g, in) == rendered(g, display(g.d, in, g))

\* lines 100-182: the Render Map button and the main area
main_area(d, in, btn, e) ==
    IF should_generate(in, btn)
    THEN generated_and_shown(generate(d, in, e), in)
    ELSE [cleared |-> FALSE, rerun |-> FALSE, generated |-> FALSE, g |-> NoGen(d),
          shown |-> "welcome", offered |-> FALSE, d |-> d]

\* lines 89-182 once the Clear Cache branch c is through: st.rerun() ends
\* the run, the notice lets it go on
after_clear(c, in, e) ==
    IF c.rerun
    THEN [cleared |-> TRUE, rerun |-> TRUE, generated |-> FALSE, g |-> NoGen(c.d),
          shown |-> "none", offered |-> FALSE, d |-> c.d]
    ELSE main_area(c.d, in, "clear", e)

\* one run of main() with the sidebar values in, the pressed button btn
\* ("clear", "render" or "none") and the outside world's answers e
main(d, in, btn, e) ==
    IF btn = "clear"
    THEN after_clear(ClearCache(d), in, e)
    ELSE main_area(d, in, btn, e)

\* number of entries under CACHE_DIR, all namespaces
Entries(d) ==
    Cardinality(DOMAIN d.geo) + Cardinality(d.font) + Cardinality(d.net)

\* first run m1, last run m2, and the cache directory c as the Clear Cache
\* branch left it
script_result(m1, m2, c) ==
    [cleared |-> m1.cleared,
     after |-> [root |-> c.root, entries |-> Entries(c)],
     generated |-> m2.generated, g |-> m2.g, shown |-> m2.shown,
     offered |-> m2.offered, d |-> m2.d]

\* line 96: after st.rerun() main() runs again, no button pressed
rerun(m1, c, in, e) ==
    script_result(m1, IF m1.rerun THEN main(m1.d, in, "none", e) ELSE m1, c)

\* a click or widget change: main() runs, and runs once more when it ended
\* in st.rerun()
script(d, in, btn, e) ==
    rerun(main(d, in, btn, e), IF btn = "clear" THEN ClearCache(d).d ELSE d, in, e)

\* ------------------------------------------------------------------- state
VARIABLES
    memo,       \* st.cache_data store of get_cached_coordinates
    cacheRoot,  \* CACHE_DIR exists
    geoCache,   \* geocode namespace under CACHE_DIR
    fontCache,  \* font namespace under CACHE_DIR
    netCache,   \* street-network namespace under CACHE_DIR
    tmpFiles,   \* temporary output files on disk
    run,        \* what the last click or widget change did
    since,      \* query -> point returned, for resolutions since the last clear
    stale,      \* queries cached when the cache was last cleared, not resolved since
    entry,      \* cache key -> chunks of its file under CACHE_DIR, or Absent
    temp,       \* writer -> chunks of its temporary file, or Absent
    wpc,        \* writer -> where it is in the write path
    wkey,       \* writer -> the cache key it is populating
    seen        \* reader -> the key it last opened and what it found

uiVars == << memo, cacheRoot, geoCache, fontCache, netCache, tmpFiles, run, since,
             stale >>

fileVars == << entry, temp, wpc, wkey, seen >>

vars == << memo, cacheRoot, geoCache, fontCache, netCache, tmpFiles, run, since,
           stale, entry, temp, wpc, wkey, seen >>

\* one key in each namespace; the processes that share CACHE_DIR
CacheKeys == {"geocode", "network", "font"}
Writers == {"w1", "w2"}
Readers == {"r1"}
Absent == 0 - 1

Formats == {"png", "pdf", "svg"}

\* the sidebar as the page first shows it
Idle ==
    [q |-> << <<"N", "y">>, <<"U", "S">> >>, lat |-> <<>>, lon |-> <<>>, font |-> "",
     live |-> FALSE, fmt |-> "png"]

AllOk ==
    [geo |-> [ok |-> TRUE, point |-> <<40, -74>>], fontOk |-> TRUE, netOk |-> TRUE,
     exportOk |-> TRUE]

D == [memo |-> memo, root |-> cacheRoot, geo |-> geoCache, font |-> fontCache,
      net |-> netCache, tmp |-> tmpFiles]

NoQuery == << <<>>, <<>> >>

NoRun ==
    [clicked |-> "none", cleared |-> FALSE, before |-> [root |-> FALSE, entries |-> 0],
     after |-> [root |-> FALSE, entries |-> 0],
     generated |-> FALSE, q |-> NoQuery, lat |-> <<>>, lon |-> <<>>,
     fontRequested |-> FALSE, g |-> NoGen(0),
     shown |-> "none", offered |-> FALSE,
     prev |-> NoPoint, prevNorm |-> {}, wasStale |-> FALSE]

Init ==
    /\ memo = Empty
    /\ cacheRoot \in BOOLEAN
    /\ geoCache = Empty
    /\ fontCache = {}
    /\ netCache = {}
    /\ tmpFiles = {}
    /\ run = NoRun
    /\ since = Empty
    /\ stale = {}
    /\ entry = [k \in CacheKeys |-> Absent]
    /\ temp = [w \in Writers |-> Absent]
    /\ wpc = [w \in Writers |-> "idle"]
    /\ wkey = [w \in Writers |-> "geocode"]
    /\ seen = [r \in Readers |-> [key |-> "geocode", chunks |-> Absent]]

\* queries some layer has a value for
Cached(d) == { q \in Queries : q \in DOMAIN d.memo \/ Normalize(q) \in DOMAIN d.geo }

\* the state after a click or widget change that did m
Record(m, in, btn) ==
    LET resolved == m.generated /\ m.g.geocoded
        since1 == IF m.cleared THEN Empty ELSE since
        stale1 == IF m.cleared THEN Cached(D) ELSE stale
    IN  /\ memo' = m.d.memo
        /\ cacheRoot' = m.d.root
        /\ geoCache' = m.d.geo
        /\ fontCache' = m.d.font
        /\ netCache' = m.d.net
        /\ tmpFiles' = m.d.tmp
        /\ run' = [clicked |-> btn, cleared |-> m.cleared,
                   before |-> IF btn = "clear"
                              THEN [root |-> cacheRoot, entries |-> Entries(D)]
                              ELSE NoRun.before,
                   after |-> IF btn = "clear" THEN m.after ELSE NoRun.after,
                   generated |-> m.generated,
                   q |-> IF resolved THEN in.q ELSE NoQuery,
                   lat |-> IF m.generated THEN in.lat ELSE <<>>,
                   lon |-> IF m.generated THEN in.lon ELSE <<>>,
                   fontRequested |-> m.generated /\ in.font # "",
                   g |-> [m.g EXCEPT !.d = 0],
                   shown |-> m.shown, offered |-> m.offered,
                   prev |-> IF resolved /\ in.q \in DOMAIN since1
                            THEN since1[in.q] ELSE NoPoint,
                   prevNorm |-> IF resolved
                                THEN { since1[x] : x \in { y \in DOMAIN since1 :
                                           /\ y # in.q
                                           /\ Normalize(y) = Normalize(in.q) } }
                                ELSE {},
                   wasStale |-> resolved /\ in.q \in stale1]
        /\ since' = IF resolved /\ m.g.raised # "coords"
                    THEN Put(since1, in.q, m.g.point)
                    ELSE since1
        /\ stale' = IF resolved THEN stale1 \ {in.q} ELSE stale1
        /\ UNCHANGED fileVars

\* one click or widget change
Run(in, btn, e) == Record(script(D, in, btn, e), in, btn)

\* what a run asks of the outside world when the geocoder would answer geo
\* and everything else succeeds
Asked(in, btn, geo) == script(D, in, btn, [AllOk EXCEPT !.geo = geo]).g

\* a click (btn) or a widget change with sidebar values among ins; the
\* outside world, limited to world, answers the questions the run asks and
\* only those; sidebar values are spelled out for the runs that read them
Step(btn, ins, world) ==
    \E in \in { i \in ins : should_generate(i, btn) \/ i = Idle } :
        /\ should_generate(in, btn) \/ (btn = "clear" /\ in.live) =>
               Cardinality(tmpFiles) < MaxTmp
        /\ \E geo \in world.geo :
           \E a \in { Asked(in, btn, geo) } :
               /\ a.calls = 0 => geo = AllOk.geo
               /\ \E fontOk \in IF a.fontFetched THEN world.fontOk ELSE {TRUE},
                     netOk \in IF a.netFetched THEN world.netOk ELSE {TRUE},
                     exportOk \in IF a.posterCalled THEN world.exportOk ELSE {TRUE} :
                      Run(in, btn, [geo |-> geo, fontOk |-> fontOk,
                                    netOk |-> netOk, exportOk |-> exportOk])

\* -------------------------------------------- resolution of the location
\* every location input; no font is asked for and the poster routine succeeds
Inputs ==
    [q : Queries, lat : LatTexts, lon : LonTexts, font : {""}, live : BOOLEAN,
     fmt : {"png"}] \cup {Idle}

World ==
    [geo |-> GeoAnswers, fontOk |-> {TRUE}, netOk |-> {TRUE}, exportOk |-> {TRUE}]

ClickClearCache ==
    /\ Step("clear", Inputs, World)
    /\ run'.clicked = "clear"

ClickRenderMap ==
    /\ Step("render", Inputs, World)
    /\ run'.clicked = "render"

ChangeWidget ==
    /\ Step("none", Inputs, World)
    /\ run'.clicked = "none"

Next == ClickClearCache \/ ClickRenderMap \/ ChangeWidget

Spec == Init /\ [][Next]_vars

\* ------------------------------------------------------------ the render
\* one location, typed or overridden; every font, format and failure of the
\* geocoder, the fetches and the export
RenderInputs ==
    [q : {Idle.q}, lat : {<<>>}, lon : {<<>>}, font : FontTexts, live : BOOLEAN,
     fmt : Formats]
    \cup [q : {Idle.q}, lat : {<<"4", "0", " ">>}, lon : {<<"-", "7", "4">>},
          font : FontTexts, live : BOOLEAN, fmt : Formats]

RenderWorld ==
    [geo |-> GeoAnswers, fontOk |-> BOOLEAN, netOk |-> BOOLEAN, exportOk |-> BOOLEAN]

RenderClickClearCache ==
    /\ Step("clear", RenderInputs, RenderWorld)
    /\ run'.clicked = "clear"

RenderClickRenderMap ==
    /\ Step("render", RenderInputs, RenderWorld)
    /\ run'.clicked = "render"

RenderChangeWidget ==
    /\ Step("none", RenderInputs, RenderWorld)
    /\ run'.clicked = "none"

RenderNext == RenderClickClearCache \/ RenderClickRenderMap \/ RenderChangeWidget

RenderSpec == Init /\ [][RenderNext]_vars

\* ------------------------------------------------- files under CACHE_DIR
\* a miss on key k: the writer goes to the external capability.  Nothing
\* stops a second writer from missing on k meanwhile.
Fetch(w, k) ==
    /\ wpc[w] = "idle"
    /\ entry[k] = Absent
    /\ wpc' = [wpc EXCEPT ![w] = "fetched"]
    /\ wkey' = [wkey EXCEPT ![w] = k]
    /\ UNCHANGED << entry, temp, seen >>
    /\ UNCHANGED uiVars

\* the fetched result goes to a temporary file of the writer's own
OpenTemp(w) ==
    /\ wpc[w] = "fetched"
    /\ temp' = [temp EXCEPT ![w] = 0]
    /\ wpc' = [wpc EXCEPT ![w] = "writing"]
    /\ UNCHANGED << entry, wkey, seen >>
    /\ UNCHANGED uiVars

\* the write path writing the entry's own file
WriteChunk_inPlace(w) ==
    /\ wpc[w] = "writing"
    /\ temp[w] # Absent
    /\ temp[w] < MaxChunks
    /\ temp' = [temp EXCEPT ![w] = @ + 1]
    /\ entry' = [entry EXCEPT ![wkey[w]] = temp[w] + 1]
    /\ UNCHANGED << wpc, wkey, seen >>
    /\ UNCHANGED uiVars

\* one more chunk of the result reaches the temporary file
WriteChunk(w) ==
    /\ wpc[w] = "writing"
    /\ temp[w] # Absent
    /\ temp[w] < MaxChunks
    /\ temp' = [temp EXCEPT ![w] = @ + 1]
    /\ UNCHANGED << entry, wpc, wkey, seen >>
    /\ UNCHANGED uiVars

\* the complete temporary file is renamed onto the entry
Rename(w) ==
    /\ wpc[w] = "writing"
    /\ temp[w] = MaxChunks
    /\ entry' = [entry EXCEPT ![wkey[w]] = temp[w]]
    /\ temp' = [temp EXCEPT ![w] = Absent]
    /\ wpc' = [wpc EXCEPT ![w] = "idle"]
    /\ wkey' = [wkey EXCEPT ![w] = "geocode"]
    /\ UNCHANGED seen
    /\ UNCHANGED uiVars

\* the temporary file is gone (a clear removed it): the write is given up
Abort(w) ==
    /\ wpc[w] = "writing"
    /\ temp[w] = Absent
    /\ wpc' = [wpc EXCEPT ![w] = "idle"]
    /\ wkey' = [wkey EXCEPT ![w] = "geocode"]
    /\ UNCHANGED << entry, temp, seen >>
    /\ UNCHANGED uiVars

\* a reader opens the entry of key k and reads what is there
Read(r, k) ==
    /\ seen' = [seen EXCEPT ![r] = [key |-> k, chunks |-> entry[k]]]
    /\ UNCHANGED << entry, temp, wpc, wkey >>
    /\ UNCHANGED uiVars

\* shutil.rmtree(CACHE_DIR) of the Clear Cache button in another session:
\* it removes the files it finds, one at a time
Unlink ==
    /\ \/ \E k \in CacheKeys :
            /\ entry[k] # Absent
            /\ entry' = [entry EXCEPT ![k] = Absent]
            /\ UNCHANGED temp
       \/ \E w \in Writers :
            /\ temp[w] # Absent
            /\ temp' = [temp EXCEPT ![w] = Absent]
            /\ UNCHANGED entry
    /\ UNCHANGED << wpc, wkey, seen >>
    /\ UNCHANGED uiVars

CacheNext ==
    \/ \E w \in Writers, k \in CacheKeys : Fetch(w, k)
    \/ \E w \in Writers : OpenTemp(w)
    \/ \E w \in Writers : WriteChunk(w)
    \/ \E w \in Writers : Rename(w)
    \/ \E w \in Writers : Abort(w)
    \/ \E r \in Readers, k \in CacheKeys : Read(r, k)
    \/ Unlink

CacheSpec == Init /\ [][CacheNext]_vars

\* ------------------------------------------------------------ properties
\* the point the Lat and Lon texts of the last run spell
OverridePoint == << float(run.lat).val, float(run.lon).val >>

\* C1: after a clear operation, the next resolution of a query that was
\* cached before the clear performs a fresh external geocoding call
ClearForcesFreshFetch == run.wasStale => run.g.calls = 1

\* C2: a render given both override texts makes no geocoding call, whatever
\* the city and country, and the poster routine gets the override point
OverrideBypass ==
    (run.generated /\ truthy(run.lat) /\ truthy(run.lon)) =>
        /\ ~run.g.geocoded
        /\ run.g.calls = 0
        /\ run.g.posterCalled => run.g.posterPoint = OverridePoint

OverrideBypassWitness ==
    /\ run.generated /\ truthy(run.lat) /\ truthy(run.lon)
    /\ run.g.posterCalled
    /\ DOMAIN memo # {}

\* C3: a query resolved again with no clear in between returns the point it
\* returned before and makes no external geocoding call
ResolutionIdempotent ==
    (run.g.geocoded /\ run.prev # NoPoint) =>
        /\ run.g.point = run.prev
        /\ run.g.calls = 0

ResolutionRepeated == run.g.geocoded /\ run.prev # NoPoint /\ run.g.posterCalled

\* C7: a query that differs from an earlier one (no clear in between) only in
\* letter case and surrounding whitespace makes no external geocoding call
\* and returns the earlier point
KeyNormalization ==
    (run.g.geocoded /\ run.prevNorm # {}) =>
        /\ run.g.calls = 0
        /\ run.prevNorm = {run.g.point}

\* C10: the override point is used exactly when both texts are non-empty;
\* with one text empty the point is the geocoded one, and with two non-empty
\* texts of which one is no number the render fails without geocoding
OverrideSelection ==
    run.generated =>
        /\ (truthy(run.lat) /\ truthy(run.lon)
               /\ float(run.lat).ok /\ float(run.lon).ok) =>
              /\ ~run.g.geocoded
              /\ run.g.posterCalled /\ run.g.posterPoint = OverridePoint
        /\ ~(truthy(run.lat) /\ truthy(run.lon)) =>
              /\ run.g.geocoded
              /\ run.g.raised # "coords" =>
                    /\ run.g.posterCalled
                    /\ run.q \in DOMAIN memo /\ run.g.posterPoint = memo[run.q]
              /\ run.g.raised = "coords" => ~run.g.posterCalled /\ run.g.path = 0
        /\ (truthy(run.lat) /\ truthy(run.lon)
               /\ ~(float(run.lat).ok /\ float(run.lon).ok)) =>
              /\ run.g.raised = "float" /\ run.g.path = 0 /\ ~run.offered
              /\ ~run.g.geocoded /\ run.g.calls = 0 /\ ~run.g.posterCalled

OneTextIgnored ==
    /\ run.generated /\ truthy(run.lat) /\ ~truthy(run.lon)
    /\ float(run.lat).ok
    /\ run.g.geocoded /\ run.g.posterCalled /\ run.g.posterPoint # OverridePoint

\* C5: a render that fails after its output file was created returns no
\* path, shows and offers nothing, and leaves no output file behind
PartialRenderDiscarded ==
    (run.generated /\ run.g.tmp # 0 /\ run.g.raised # "none") =>
        /\ run.g.path = 0
        /\ run.shown = "none" /\ ~run.offered
        /\ run.g.tmp \notin tmpFiles

\* C6: a failed font fetch does not fail the render: the poster routine
\* still runs, with the fallback font, and its artifact is returned
FontFailureNotFatal ==
    (run.fontRequested /\ run.g.fontFailed) =>
        /\ run.g.raised # "font"
        /\ run.g.is_fallback
        /\ run.g.posterCalled
        /\ run.g.raised = "none" => run.g.path # 0 /\ run.offered

FontFallbackRendered ==
    /\ run.fontRequested /\ run.g.fontFailed
    /\ run.g.path # 0 /\ run.offered

\* C8: whatever the cache root was, after a click on Clear Cache it exists
\* and holds no entry
ClearRecreatesRoot ==
    run.clicked = "clear" => run.after.root /\ run.after.entries = 0

\* C8, amended: after a click on Clear Cache no namespace holds an entry,
\* and the cache root exists exactly if it existed before the click
ClearEmptiesRoot ==
    run.clicked = "clear" =>
        /\ run.after.entries = 0
        /\ run.after.root = run.before.root

ClearedFullCache == run.cleared /\ run.before.entries >= 3

\* C9: no run leaves a temporary output file behind
TempFilesRemoved == tmpFiles = {}


\* C4: whatever writers, readers and clears interleave, a reader finds no
\* entry or a completely written one
ReadersSeeWholeEntries ==
    \A r \in Readers : seen[r].chunks \in {Absent, MaxChunks}

ReadDuringConcurrentWrite ==
    \E r \in Readers, w \in Writers :
        /\ seen[r].chunks = MaxChunks
        /\ entry[seen[r].key] = MaxChunks
        /\ wpc[w] = "writing" /\ wkey[w] = seen[r].key
        /\ temp[w] # Absent /\ temp[w] > 0 /\ temp[w] < MaxChunks

====
